---- MODULE Spec2Model ----
(***************************************************************************)
(* A model of DB/inserts/file_parsers/samples_parser.py: one run of        *)
(* SamplesParser.parse_and_insert over a delimited file, with the storage  *)
(* collaborators (find_or_insert_geo_location, find_or_insert_sample) as   *)
(* suspension points whose answers are chosen by the environment.          *)
(*                                                                         *)
(* Raw text is a sequence of lexemes (<<>> is the empty string), so that   *)
(* concatenation (+ 'Z'), splitting on ':' and comparison with 'missing'   *)
(* are computed, not assumed.  Python values are tagged records.           *)
(***************************************************************************)
EXTENDS Integers, Sequences, FiniteSets, TLC

VARIABLES
    header,             \* reader.fieldnames: the file's header, a set of columns
    rows,               \* the file's data rows, in file order
    pc,                 \* per run: position of the coroutine
    idx,                \* per run: number of rows the reader has yielded
    cache_geo_loc_ids,  \* per run: (country, region, locality) -> id
    debug_info,         \* per run: skipped_malformed, count_preexisting
    geo_loc,            \* per run: local geo_loc (argument of the geo call)
    geo_location_id,    \* per run: local geo_location_id of the current row
    sample,             \* per run: local sample (argument of the sample call)
    trace               \* per run, history: calls, returns and outcomes, in order

vars == <<header, rows, pc, idx, cache_geo_loc_ids, debug_info,
          geo_loc, geo_location_id, sample, trace>>

----------------------------------------------------------------------------
\* Bounds of the model.

\* longest file, in data rows
MaxRows == 2

\* identifiers the storage collaborator may hand out are 1..MaxGeoId
MaxGeoId == 2

Runs == {1, 2}

----------------------------------------------------------------------------
\* Python values.

None == [t |-> "none"]
StrVal(s) == [t |-> "str", s |-> s]
IntVal(i) == [t |-> "int", i |-> i]
\* a float, held in tenths
FloatVal(tenths) == [t |-> "float", tenths |-> tenths]
BoolVal(b) == [t |-> "bool", b |-> b]
\* a datetime: tz is "naive" (tzinfo None) or "UTC"
DateTime(body, tz) == [t |-> "datetime", body |-> body, tz |-> tz]

Ok(v) == [ok |-> TRUE, val |-> v]
Raise(e) == [ok |-> FALSE, exc |-> e]

\* exceptions a storage call may raise: a ValueError (or subclass), or another
ExcKinds == {"ValueError", "OtherError"}

----------------------------------------------------------------------------
\* class ColNameMapping(Enum): logical field -> literal header string

ColNameMapping ==
    [accession |-> "Run",
     assay_type |-> "Assay Type",
     avg_spot_length |-> "AvgSpotLen",
     bases |-> "Bases",
     bio_project |-> "BioProject",
     bio_sample |-> "BioSample",
     bio_sample_model |-> "BioSampleModel",
     bytes_ |-> "Bytes",
     center_name |-> "Center Name",
     collection_date |-> "Collection_Date",
     consent_level |-> "Consent",
     datastore_filetype |-> "DATASTORE filetype",
     datastore_provider |-> "DATASTORE provider",
     datastore_region |-> "DATASTORE region",
     experiment |-> "Experiment",
     geo_loc_name_country |-> "geo_loc_name_country",
     geo_loc_name_country_continent |-> "geo_loc_name_country_continent",
     geo_loc_name |-> "geo_loc_name",
     host |-> "Host",
     instrument |-> "Instrument",
     isolate |-> "isolate",
     library_name |-> "Library Name",
     library_layout |-> "LibraryLayout",
     library_selection |-> "LibrarySelection",
     library_source |-> "LibrarySource",
     organism |-> "Organism",
     platform |-> "Platform",
     release_date |-> "ReleaseDate",
     creation_date |-> "create_date",
     version |-> "version",
     sample_name |-> "Sample Name",
     sra_study |-> "SRA Study",
     serotype |-> "serotype",
     isolation_source |-> "isolation_source",
     bio_sample_accession |-> "BioSample Accession",
     is_retracted |-> "is_retracted",
     retraction_detected_date |-> "retraction_detection_date_utc"]

\* the members get_required_column_set enumerates
RequiredMembers ==
    {"accession", "assay_type", "avg_spot_length", "bases", "bio_project",
     "bio_sample", "bio_sample_model", "bytes_", "center_name",
     "collection_date", "consent_level", "datastore_filetype",
     "datastore_provider", "datastore_region", "experiment", "geo_loc_name",
     "host", "instrument", "isolate", "library_name", "library_layout",
     "library_selection", "library_source", "organism", "platform",
     "release_date", "creation_date", "version", "sample_name", "sra_study",
     "serotype", "isolation_source", "bio_sample_accession", "is_retracted",
     "retraction_detected_date"}

\* mutant: a required set that leaves out a column the rows are read by
get_required_column_set_NoBases == {ColNameMapping[m] : m \in RequiredMembers} \ {"Bases"}

get_required_column_set == {ColNameMapping[m] : m \in RequiredMembers}

AllColumns == {ColNameMapping[m] : m \in DOMAIN ColNameMapping}

----------------------------------------------------------------------------
\* Conversions (the transforms handed to get_value, and the domain parsers).

DigitLexemes == {"150", "500", "1000"}

IntOf(lx) == CASE lx = "150" -> 150 [] lx = "500" -> 500 [] lx = "1000" -> 1000

\* int(s): a decimal integer literal, else ValueError
int(s) ==
    IF Len(s) = 1 /\ s[1] \in DigitLexemes
    THEN Ok(IntVal(IntOf(s[1])))
    ELSE Raise("ValueError")

\* float(s): an integer or decimal literal, else ValueError
float(s) ==
    IF Len(s) = 1 /\ s[1] \in DigitLexemes THEN Ok(FloatVal(10 * IntOf(s[1])))
    ELSE IF s = <<"12.5">> THEN Ok(FloatVal(125))
    ELSE Raise("ValueError")

\* the default transform of get_value
identity(s) == Ok(StrVal(s))

\* utils.csv_helpers.bool_from_str
bool_from_str(s) ==
    IF s \in {<<"true">>, <<"True">>} THEN Ok(BoolVal(TRUE))
    ELSE IF s \in {<<"false">>, <<"False">>} THEN Ok(BoolVal(FALSE))
    ELSE Raise("ValueError")

DateTimeLexemes == {"2021-03-04T05:06:07", "2022-01-02T03:04:05"}

\* dateutil.parser.isoparse: a date-time without designator is naive, with a
\* trailing 'Z' it is UTC; anything left over after the designator is an error
isoparse(s) ==
    IF Len(s) = 1 /\ s[1] \in DateTimeLexemes
    THEN Ok(DateTime(s[1], "naive"))
    ELSE IF Len(s) = 2 /\ s[1] \in DateTimeLexemes /\ s[2] = "Z"
    THEN Ok(DateTime(s[1], "UTC"))
    ELSE Raise("ValueError")

Apply(transform, s) ==
    CASE transform = "identity" -> identity(s)
      [] transform = "int" -> int(s)
      [] transform = "float" -> float(s)
      [] transform = "bool_from_str" -> bool_from_str(s)
      [] transform = "isoparse" -> isoparse(s)

\* utils.csv_helpers.get_value(row, key, allow_none=False, transform=identity):
\* an empty value is None when allow_none, else a ValueError; otherwise the
\* transform's result, a failed conversion being a ValueError
get_value(row, key, allow_none, transform) ==
    IF key \notin DOMAIN row THEN Raise("KeyError")
    ELSE IF row[key] = <<>>
         THEN (IF allow_none THEN Ok(None) ELSE Raise("ValueError"))
         ELSE Apply(transform, row[key])

DateLexemes == {"2020-01-01", "2020-02-01"}

\* utils.dates_and_times.parse_collection_start_and_end
parse_collection_start_and_end(s) ==
    IF s = <<"missing">> THEN Ok(<<None, None>>)
    ELSE IF Len(s) = 1 /\ s[1] \in DateLexemes
    THEN Ok(<<DateTime(s[1], "naive"), DateTime(s[1], "naive")>>)
    ELSE IF Len(s) = 3 /\ s[1] \in DateLexemes /\ s[2] = "/" /\ s[3] \in DateLexemes
    THEN Ok(<<DateTime(s[1], "naive"), DateTime(s[3], "naive")>>)
    ELSE Raise("ValueError")

\* s.split(':'): the segments of s between ':' lexemes
RECURSIVE Split(_)
Split(s) ==
    IF \A i \in 1..Len(s) : s[i] # ":" THEN <<s>>
    ELSE LET k == CHOOSE i \in 1..Len(s) :
                      s[i] = ":" /\ \A j \in 1..(i - 1) : s[j] # ":"
         IN  <<SubSeq(s, 1, k - 1)>> \o Split(SubSeq(s, k + 1, Len(s)))

\* seg.strip(): seg without the blanks at its ends
RECURSIVE Strip(_)
Strip(seg) ==
    IF seg = <<>> THEN seg
    ELSE IF seg[1] = " " THEN Strip(Tail(seg))
    ELSE IF seg[Len(seg)] = " " THEN Strip(SubSeq(seg, 1, Len(seg) - 1))
    ELSE seg

Segment(seg) == IF Strip(seg) = <<>> THEN None ELSE StrVal(Strip(seg))

\* utils.geodata.parse_geo_loc: country[:region[:locality]], each segment
\* stripped, an absent or empty segment None, more than three an error
parse_geo_loc(s) ==
    LET parts == Split(s)
    IN  IF Len(parts) > 3 THEN Raise("ValueError")
        ELSE Ok(<<Segment(parts[1]),
                  IF Len(parts) >= 2 THEN Segment(parts[2]) ELSE None,
                  IF Len(parts) >= 3 THEN Segment(parts[3]) ELSE None>>)

----------------------------------------------------------------------------
\* The file.

Lit(lx) == <<lx>>

\* a well-formed row: every column holds an acceptable value
GoodRow ==
    [c \in AllColumns |->
        CASE c = "geo_loc_name" -> <<"USA", ":", "California", ":", "Davis">>
          [] c = "Collection_Date" -> Lit("missing")
          [] c = "retraction_detection_date_utc" -> <<>>
          [] c = "AvgSpotLen" -> Lit("150")
          [] c = "Bases" -> Lit("500")
          [] c = "Bytes" -> Lit("1000")
          [] c = "is_retracted" -> Lit("false")
          [] c = "ReleaseDate" -> Lit("2021-03-04T05:06:07")
          [] c = "create_date" -> <<"2022-01-02T03:04:05", "Z">>
          [] c = "Run" -> Lit("SRR123")
          [] OTHER -> Lit("x")]

\* the values a row may hold in place of GoodRow's, column by column
Variants ==
    {<<"geo_loc_name", <<"USA", ":", " ", "California", ":", " ", "Davis">>>>,
     <<"geo_loc_name", <<>>>>,
     <<"geo_loc_name", <<"Canada">>>>,
     <<"geo_loc_name", <<"USA", ":", "California", ":", "Davis", ":", "x">>>>,
     <<"Collection_Date", <<"2020-01-01", "/", "2020-02-01">>>>,
     <<"Collection_Date", Lit("unknown")>>,
     <<"Collection_Date", <<>>>>,
     <<"retraction_detection_date_utc", Lit("2021-03-04T05:06:07")>>,
     <<"retraction_detection_date_utc", <<"2021-03-04T05:06:07", "Z">>>>,
     <<"AvgSpotLen", Lit("abc")>>,
     <<"Bases", <<>>>>}

RowSet == {GoodRow} \cup {[GoodRow EXCEPT ![v[1]] = v[2]] : v \in Variants}

\* the headers a file may have: complete, and two that lack required columns
Headers ==
    {AllColumns,
     AllColumns \ {"Bases"},
     get_required_column_set \ {"Bases", "Run"}}

\* csv.DictReader: a row is keyed by the header's columns
ReadRow(fieldnames, r) == [c \in fieldnames |-> r[c]]

RECURSIVE SeqsUpTo(_, _)
SeqsUpTo(S, n) ==
    IF n = 0 THEN {<<>>}
    ELSE LET shorter == SeqsUpTo(S, n - 1)
         IN  shorter \cup {Append(q, x) : q \in {t \in shorter : Len(t) = n - 1}, x \in S}

----------------------------------------------------------------------------
\* Row assembly (the body of the for loop, between the suspension points).

\* the key of cache_geo_loc_ids
CacheKey(country_name, region_name, locality_name, full_text) ==
    <<country_name, region_name, locality_name>>

\* mutant: the identifier is not stored
CacheStore_Forgets(cache, key, id) == cache

\* cache_geo_loc_ids[key] = geo_location_id
CacheStore(cache, key, id) == (key :> id) @@ cache

\* GeoLocation(full_text=..., country_name=..., region_name=..., locality_name=...)
GeoLocation(full_text, country_name, region_name, locality_name) ==
    [full_text |-> full_text, country_name |-> country_name,
     region_name |-> region_name, locality_name |-> locality_name]

\* mutant: the geo-location extracted with allow_none=False
GeoAllowNone_False == FALSE

\* line 42: allow_none=True
GeoAllowNone == TRUE

\* lines 38-56 up to the cache lookup: "none" (no geo-location), "raise",
\* "hit" (cached id) or "miss" (the GeoLocation to look up)
GeoStep(row, cache) ==
    LET geo_loc_full_text == get_value(row, ColNameMapping.geo_loc_name, GeoAllowNone, "identity")
    IN  IF ~geo_loc_full_text.ok
        THEN [kind |-> "raise", exc |-> geo_loc_full_text.exc]
        ELSE IF geo_loc_full_text.val.t = "none"
        THEN [kind |-> "none"]
        ELSE LET parsed == parse_geo_loc(geo_loc_full_text.val.s)
             IN  IF ~parsed.ok
                 THEN [kind |-> "raise", exc |-> parsed.exc]
                 ELSE LET key == CacheKey(parsed.val[1], parsed.val[2], parsed.val[3],
                                          geo_loc_full_text.val)
                      IN  IF key \in DOMAIN cache
                          THEN [kind |-> "hit", id |-> cache[key]]
                          ELSE [kind |-> "miss", key |-> key,
                                geo_loc |-> GeoLocation(geo_loc_full_text.val,
                                    parsed.val[1], parsed.val[2], parsed.val[3])]

\* mutant: no comparison with the sentinel
IsDateGiven_Always(collection_date) == TRUE

\* line 65: whether the collection date goes to the date-range parser
IsDateGiven(collection_date) == collection_date # StrVal(Lit("missing"))

\* lines 59-66: [ok, val |-> <<start, end>>, parsed] or [ok, exc, parsed];
\* parsed tells whether parse_collection_start_and_end was invoked
CollectionStep(row) ==
    LET collection_date == get_value(row, ColNameMapping.collection_date, FALSE, "identity")
    IN  IF ~collection_date.ok
        THEN [ok |-> FALSE, exc |-> collection_date.exc, parsed |-> FALSE]
        ELSE IF IsDateGiven(collection_date.val)
        THEN LET r == parse_collection_start_and_end(collection_date.val.s)
             IN  IF r.ok THEN [ok |-> TRUE, val |-> r.val, parsed |-> TRUE]
                 ELSE [ok |-> FALSE, exc |-> r.exc, parsed |-> TRUE]
        ELSE [ok |-> TRUE, val |-> <<None, None>>, parsed |-> FALSE]

\* lines 69-76: the retraction date, 'Z' appended before isoparse
RetractionStep(row) ==
    LET retraction_detected_date ==
            get_value(row, ColNameMapping.retraction_detected_date, TRUE, "identity")
    IN  IF ~retraction_detected_date.ok \/ retraction_detected_date.val.t = "none"
        THEN retraction_detected_date
        ELSE isoparse(retraction_detected_date.val.s \o <<"Z">>)

\* lines 80-139: the fields Sample(...) takes from get_value, in the order of
\* the keyword arguments: <<field, ColNameMapping member, allow_none, transform>>
SampleFieldSpecs ==
    <<<<"accession", "accession", FALSE, "identity">>,
      <<"assay_type", "assay_type", FALSE, "identity">>,
      <<"avg_spot_length", "avg_spot_length", TRUE, "float">>,
      <<"bases", "bases", FALSE, "int">>,
      <<"bio_project", "bio_project", FALSE, "identity">>,
      <<"bio_sample", "bio_sample", TRUE, "identity">>,
      <<"bio_sample_model", "bio_sample_model", FALSE, "identity">>,
      <<"bio_sample_accession", "bio_sample_accession", TRUE, "identity">>,
      <<"bytes", "bytes_", FALSE, "int">>,
      <<"center_name", "center_name", FALSE, "identity">>,
      <<"consent_level", "consent_level", FALSE, "identity">>,
      <<"datastore_filetype", "datastore_filetype", FALSE, "identity">>,
      <<"datastore_provider", "datastore_provider", FALSE, "identity">>,
      <<"datastore_region", "datastore_region", FALSE, "identity">>,
      <<"experiment", "experiment", FALSE, "identity">>,
      <<"host", "host", TRUE, "identity">>,
      <<"instrument", "instrument", FALSE, "identity">>,
      <<"isolate", "isolate", TRUE, "identity">>,
      <<"library_name", "library_name", FALSE, "identity">>,
      <<"library_layout", "library_layout", FALSE, "identity">>,
      <<"library_selection", "library_selection", FALSE, "identity">>,
      <<"library_source", "library_source", FALSE, "identity">>,
      <<"organism", "organism", FALSE, "identity">>,
      <<"platform", "platform", FALSE, "identity">>,
      <<"version", "version", FALSE, "identity">>,
      <<"sample_name", "sample_name", FALSE, "identity">>,
      <<"sra_study", "sra_study", FALSE, "identity">>,
      <<"serotype", "serotype", TRUE, "identity">>,
      <<"isolation_source", "isolation_source", TRUE, "identity">>,
      <<"is_retracted", "is_retracted", FALSE, "bool_from_str">>,
      <<"release_date", "release_date", FALSE, "isoparse">>,
      <<"creation_date", "creation_date", FALSE, "isoparse">>>>

\* the fields of a Sample that the row pipeline derives before Sample(...)
DerivedFields ==
    {"geo_location_id", "collection_start_date", "collection_end_date",
     "retraction_detected_date"}

SampleFields == DerivedFields \cup {SampleFieldSpecs[i][1] : i \in DOMAIN SampleFieldSpecs}

\* mutant: every field extracted with allow_none=True
FieldValue_AllowNone(row, spec) == get_value(row, ColNameMapping[spec[2]], TRUE, spec[4])

\* one get_value(...) argument of Sample(...)
FieldValue(row, spec) == get_value(row, ColNameMapping[spec[2]], spec[3], spec[4])

\* lines 78-140: Sample(...); the first get_value that raises ends it
MakeSample(row, gid, collection, retraction) ==
    LET failing == {i \in DOMAIN SampleFieldSpecs : ~FieldValue(row, SampleFieldSpecs[i]).ok}
    IN  IF failing # {}
        THEN LET first == CHOOSE i \in failing : \A j \in failing : i <= j
             IN  [ok |-> FALSE, exc |-> FieldValue(row, SampleFieldSpecs[first]).exc,
                  stage |-> SampleFieldSpecs[first][1]]
        ELSE [ok |-> TRUE, val |->
                [f \in SampleFields |->
                    CASE f = "geo_location_id" -> gid
                      [] f = "collection_start_date" -> collection[1]
                      [] f = "collection_end_date" -> collection[2]
                      [] f = "retraction_detected_date" -> retraction
                      [] OTHER ->
                           LET i == CHOOSE k \in DOMAIN SampleFieldSpecs :
                                        SampleFieldSpecs[k][1] = f
                           IN  FieldValue(row, SampleFieldSpecs[i]).val]]

\* lines 58-140: what follows the geo-location in a row, up to the sample call
Assemble(row, gid) ==
    LET collection == CollectionStep(row)
        retraction == RetractionStep(row)
    IN  IF ~collection.ok
        THEN [ok |-> FALSE, exc |-> collection.exc, stage |-> "collection_date",
              parsed |-> collection.parsed]
        ELSE IF ~retraction.ok
        THEN [ok |-> FALSE, exc |-> retraction.exc, stage |-> "retraction_detected_date",
              parsed |-> collection.parsed]
        ELSE LET made == MakeSample(row, gid, collection.val, retraction.val)
             IN  IF made.ok
                 THEN [ok |-> TRUE, val |-> made.val, parsed |-> collection.parsed]
                 ELSE [ok |-> FALSE, exc |-> made.exc, stage |-> made.stage,
                       parsed |-> collection.parsed]

----------------------------------------------------------------------------
\* The run: SamplesParser.parse_and_insert.

\* mutant: the comparison of _verify_header the other way round
HeaderOk_Reversed(fieldnames) == fieldnames \subseteq get_required_column_set

\* _verify_header: set(reader.fieldnames) >= required_columns
HeaderOk(fieldnames) == get_required_column_set \subseteq fieldnames

\* _verify_header: required_columns - set(reader.fieldnames)
MissingColumns(fieldnames) == get_required_column_set \ fieldnames

\* mutant: a handler that catches KeyError only
Caught_KeyErrorOnly(exc) == exc = "KeyError"

\* except ValueError: the exceptions the row's handler catches
Caught(exc) == exc = "ValueError"

\* the upsert argument of find_or_insert_sample
UpsertArg == TRUE

\* debug_info with one more skipped row
CountMalformed(d) == [d EXCEPT !.skipped_malformed = @ + 1]

\* mutant: every sample call counted as preexisting
CountSample_Always(d, preexisting) == [d EXCEPT !.count_preexisting = @ + 1]

\* debug_info after a sample call that returned preexisting
CountSample(d, preexisting) ==
    IF preexisting THEN [d EXCEPT !.count_preexisting = @ + 1] ELSE d

\* an exception raised inside the try block of the current row, after events tr
Raised(r, i, exc, stage, parsed, tr) ==
    IF Caught(exc)
    THEN /\ debug_info' = [debug_info EXCEPT ![r] = CountMalformed(@)]
         /\ pc' = [pc EXCEPT ![r] = "rows"]
         /\ trace' = [trace EXCEPT ![r] =
                          tr \o <<[ev |-> "malformed", run |-> r, row |-> i,
                                   stage |-> stage, parsed |-> parsed]>>]
    ELSE /\ debug_info' = debug_info
         /\ pc' = [pc EXCEPT ![r] = "aborted"]
         /\ trace' = [trace EXCEPT ![r] =
                          tr \o <<[ev |-> "abort", run |-> r, row |-> i,
                                   stage |-> stage, parsed |-> parsed]>>]

\* lines 58-142: from a resolved geo_location_id to the sample call
Proceed(r, i, gid, tr) ==
    LET a == Assemble(rows[i], gid)
    IN  /\ geo_location_id' = [geo_location_id EXCEPT ![r] = gid]
        /\ IF a.ok
           THEN /\ sample' = [sample EXCEPT ![r] = a.val]
                /\ pc' = [pc EXCEPT ![r] = "await_sample"]
                /\ debug_info' = debug_info
                /\ trace' = [trace EXCEPT ![r] =
                                 tr \o <<[ev |-> "sample_call", run |-> r, row |-> i,
                                          sample |-> a.val, upsert |-> UpsertArg,
                                          parsed |-> a.parsed]>>]
           ELSE /\ sample' = sample
                /\ Raised(r, i, a.exc, a.stage, a.parsed, tr)

Init ==
    /\ header \in Headers
    /\ rows \in {[i \in DOMAIN q |-> ReadRow(header, q[i])] : q \in SeqsUpTo(RowSet, MaxRows)}
    /\ pc = [r \in Runs |-> IF r = 1 THEN "start" ELSE "unstarted"]
    /\ idx = [r \in Runs |-> 0]
    /\ cache_geo_loc_ids = [r \in Runs |-> <<>>]
    /\ debug_info = [r \in Runs |-> [skipped_malformed |-> 0, count_preexisting |-> 0]]
    /\ geo_loc = [r \in Runs |-> None]
    /\ geo_location_id = [r \in Runs |-> None]
    /\ sample = [r \in Runs |-> None]
    /\ trace = [r \in Runs |-> <<>>]

\* lines 32-34: open the file, read the header, _verify_header
VerifyHeader(r) ==
    /\ pc[r] = "start"
    /\ IF HeaderOk(header)
       THEN /\ pc' = [pc EXCEPT ![r] = "rows"]
            /\ trace' = [trace EXCEPT ![r] = Append(@, [ev |-> "header_ok", run |-> r])]
       ELSE /\ pc' = [pc EXCEPT ![r] = "schema_error"]
            /\ trace' = [trace EXCEPT ![r] =
                             Append(@, [ev |-> "schema_error", run |-> r,
                                        missing |-> MissingColumns(header)])]
    /\ UNCHANGED <<header, rows, idx, cache_geo_loc_ids, debug_info,
                   geo_loc, geo_location_id, sample>>

\* mutant: the sample call is not awaited before the next row is read
LoopReady_Detached(p) == p \in {"rows", "await_sample"}

\* line 35: the loop reads the next row only when the body of the last is over
LoopReady(p) == p = "rows"

\* mutant: the loop may end before the reader is exhausted
ReaderExhausted_Early(i, n) == TRUE

\* line 35: the for loop ends when the reader has yielded every row
ReaderExhausted(i, n) == i = n

\* lines 35-56 (and on to 142 when no geo call is needed): the reader yields
\* the next row and the row runs to its first suspension point or its end
StartRow(r) ==
    /\ LoopReady(pc[r])
    /\ idx[r] < Len(rows)
    /\ idx' = [idx EXCEPT ![r] = @ + 1]
    /\ LET i == idx[r] + 1
           row == rows[i]
           g == GeoStep(row, cache_geo_loc_ids[r])
           tr == Append(trace[r], [ev |-> "row", run |-> r, row |-> i])
       IN  CASE g.kind = "raise" ->
                  /\ Raised(r, i, g.exc, "geo_loc_name", FALSE, tr)
                  /\ geo_location_id' = [geo_location_id EXCEPT ![r] = None]
                  /\ UNCHANGED <<geo_loc, sample>>
             [] g.kind = "none" ->
                  /\ Proceed(r, i, None, tr)
                  /\ UNCHANGED geo_loc
             [] g.kind = "hit" ->
                  /\ Proceed(r, i, g.id, tr)
                  /\ UNCHANGED geo_loc
             [] g.kind = "miss" ->
                  /\ geo_loc' = [geo_loc EXCEPT ![r] = g.geo_loc]
                  /\ geo_location_id' = [geo_location_id EXCEPT ![r] = None]
                  /\ pc' = [pc EXCEPT ![r] = "await_geo"]
                  /\ trace' = [trace EXCEPT ![r] =
                                   tr \o <<[ev |-> "geo_call", run |-> r, row |-> i,
                                            geo_loc |-> g.geo_loc]>>]
                  /\ UNCHANGED <<debug_info, sample>>
    /\ UNCHANGED <<header, rows, cache_geo_loc_ids>>

\* lines 55-56 (and on to 142): find_or_insert_geo_location returns id
GeoReturn(r, id) ==
    /\ pc[r] = "await_geo"
    /\ LET g == geo_loc[r]
           key == CacheKey(g.country_name, g.region_name, g.locality_name, g.full_text)
       IN  cache_geo_loc_ids' = [cache_geo_loc_ids EXCEPT ![r] = CacheStore(@, key, IntVal(id))]
    /\ Proceed(r, idx[r], IntVal(id),
               Append(trace[r], [ev |-> "geo_ret", run |-> r, row |-> idx[r], id |-> IntVal(id)]))
    /\ UNCHANGED <<header, rows, idx, geo_loc>>

\* line 55: find_or_insert_geo_location raises
GeoRaise(r, exc) ==
    /\ pc[r] = "await_geo"
    /\ Raised(r, idx[r], exc, "find_or_insert_geo_location", FALSE,
              Append(trace[r], [ev |-> "geo_exc", run |-> r, row |-> idx[r], exc |-> exc]))
    /\ UNCHANGED <<header, rows, idx, cache_geo_loc_ids, geo_loc, geo_location_id, sample>>

\* lines 142-144: find_or_insert_sample returns (_, preexisting)
SampleReturn(r, preexisting) ==
    /\ pc[r] = "await_sample"
    /\ debug_info' = [debug_info EXCEPT ![r] = CountSample(@, preexisting)]
    /\ pc' = [pc EXCEPT ![r] = "rows"]
    /\ trace' = [trace EXCEPT ![r] =
                     Append(@, [ev |-> "sample_ret", run |-> r, row |-> idx[r],
                                preexisting |-> preexisting])]
    /\ UNCHANGED <<header, rows, idx, cache_geo_loc_ids, geo_loc, geo_location_id, sample>>

\* line 142: find_or_insert_sample raises
SampleRaise(r, exc) ==
    /\ pc[r] = "await_sample"
    /\ Raised(r, idx[r], exc, "find_or_insert_sample", FALSE,
              Append(trace[r], [ev |-> "sample_exc", run |-> r, row |-> idx[r], exc |-> exc]))
    /\ UNCHANGED <<header, rows, idx, cache_geo_loc_ids, geo_loc, geo_location_id, sample>>

\* line 149: the reader is exhausted; print(debug_info)
Finish(r) ==
    /\ pc[r] = "rows"
    /\ ReaderExhausted(idx[r], Len(rows))
    /\ pc' = [pc EXCEPT ![r] = "finished"]
    /\ trace' = [trace EXCEPT ![r] =
                     Append(@, [ev |-> "print", run |-> r, debug_info |-> debug_info[r]])]
    /\ UNCHANGED <<header, rows, idx, cache_geo_loc_ids, debug_info,
                   geo_loc, geo_location_id, sample>>

Next ==
    \E r \in Runs :
        \/ VerifyHeader(r)
        \/ StartRow(r)
        \/ \E id \in 1..MaxGeoId : GeoReturn(r, id)
        \/ \E exc \in ExcKinds : GeoRaise(r, exc)
        \/ \E preexisting \in BOOLEAN : SampleReturn(r, preexisting)
        \/ \E exc \in ExcKinds : SampleRaise(r, exc)
        \/ Finish(r)

Spec == Init /\ [][Next]_vars

\* one-row files over a wider choice of rows: GoodRow with any one required
\* column empty, or with an unconvertible number, flag or timestamp
FieldRowSet ==
    {GoodRow}
    \cup {[GoodRow EXCEPT ![c] = <<>>] : c \in get_required_column_set}
    \cup {[GoodRow EXCEPT ![c] = Lit("abc")] : c \in {"Bases", "Bytes", "AvgSpotLen"}}
    \cup {[GoodRow EXCEPT ![c] = Lit("12.5")] : c \in {"Bases", "Bytes", "AvgSpotLen"}}
    \cup {[GoodRow EXCEPT !["is_retracted"] = v] : v \in {Lit("maybe"), Lit("True")}}
    \cup {[GoodRow EXCEPT ![c] = Lit("yesterday")] : c \in {"ReleaseDate", "create_date"}}

InitFields ==
    /\ header = AllColumns
    /\ rows \in {<<ReadRow(header, row)>> : row \in FieldRowSet}
    /\ pc = [r \in Runs |-> IF r = 1 THEN "start" ELSE "unstarted"]
    /\ idx = [r \in Runs |-> 0]
    /\ cache_geo_loc_ids = [r \in Runs |-> <<>>]
    /\ debug_info = [r \in Runs |-> [skipped_malformed |-> 0, count_preexisting |-> 0]]
    /\ geo_loc = [r \in Runs |-> None]
    /\ geo_location_id = [r \in Runs |-> None]
    /\ sample = [r \in Runs |-> None]
    /\ trace = [r \in Runs |-> <<>>]

SpecFields == InitFields /\ [][Next]_vars

----------------------------------------------------------------------------
\* Reading the history.

\* the positions of the events ev of run r
Events(ev, r) == {k \in DOMAIN trace[r] : trace[r][k].ev = ev /\ trace[r][k].run = r}

\* the positions of the events ev of run r that belong to row i
RowEvents(ev, r, i) == {k \in Events(ev, r) : trace[r][k].row = i}

\* the stages of a "malformed" event that are storage calls, not validation
StorageStages == {"find_or_insert_geo_location", "find_or_insert_sample"}

\* the rows of run r skipped because one of their own values failed validation
InvalidRows(r) ==
    {trace[r][k].row : k \in {j \in Events("malformed", r) : trace[r][j].stage \notin StorageStages}}

\* the (country, region, locality) a raw geo-location string decomposes to
TripleOf(s) == parse_geo_loc(s).val

\* the triple of a GeoLocation handed to find_or_insert_geo_location
TripleOfLoc(g) == <<g.country_name, g.region_name, g.locality_name>>

NoCounts == [skipped_malformed |-> 0, count_preexisting |-> 0]

\* the sample calls of run r that reported a preexisting record
PreexistingReturns(r) == {k \in Events("sample_ret", r) : trace[r][k].preexisting}

\* row i of run r has run to its end (no call of it is outstanding)
RowOver(r, i) == idx[r] > i \/ (idx[r] = i /\ pc[r] \in {"rows", "finished", "aborted"})

----------------------------------------------------------------------------
\* C1: within one run, two rows whose geo-location strings decompose to the
\* same triple get the same geo_location_id, and find_or_insert_geo_location
\* is called at most once per triple over the whole run.
C1_OneCallPerTriple ==
    \A r \in Runs :
        /\ \A j, k \in Events("geo_call", r) :
               TripleOfLoc(trace[r][j].geo_loc) = TripleOfLoc(trace[r][k].geo_loc) => j = k
        /\ \A j, k \in Events("sample_call", r) :
               LET a == rows[trace[r][j].row][ColNameMapping.geo_loc_name]
                   b == rows[trace[r][k].row][ColNameMapping.geo_loc_name]
               IN  (a # <<>> /\ b # <<>> /\ TripleOf(a) = TripleOf(b))
                   => trace[r][j].sample.geo_location_id = trace[r][k].sample.geo_location_id

\* C2: a header that lacks a required column fails the run in header
\* validation, before any row is read: no row is assembled, no storage call is
\* made, no counter changes, and the columns reported missing are exactly the
\* required columns that the header lacks.
C2_HeaderFailsFirst ==
    \A r \in Runs :
        (pc[r] \notin {"unstarted", "start"} /\ ~(get_required_column_set \subseteq header))
        => /\ pc[r] = "schema_error"
           /\ idx[r] = 0
           /\ debug_info[r] = NoCounts
           /\ cache_geo_loc_ids[r] = <<>>
           /\ {k \in DOMAIN trace[r] : trace[r][k].run = r} = Events("schema_error", r)
           /\ Cardinality(Events("schema_error", r)) = 1
           /\ \A k \in Events("schema_error", r) :
                  trace[r][k].missing = get_required_column_set \ header

\* C2 witness: a file with data rows whose header lacks "Bases" has failed
C2_Witness ==
    /\ pc[1] = "schema_error"
    /\ Len(rows) > 0
    /\ "Bases" \notin header
    /\ trace[1][Len(trace[1])].missing = {"Bases"}

\* C3: a row whose assembly fails with a validation error (such as a
\* non-numeric avg_spot_length) adds exactly one to skipped_malformed, leaves
\* count_preexisting alone, is never handed to find_or_insert_sample and does
\* not abort the run: the rows after it are still processed.
C3_ValidationSkipsRow ==
    \A r \in Runs :
        /\ debug_info[r].skipped_malformed = Cardinality(Events("malformed", r))
        /\ debug_info[r].count_preexisting = Cardinality(PreexistingReturns(r))
        /\ \A k \in Events("abort", r) : trace[r][k].stage \in StorageStages
        /\ \A i \in InvalidRows(r) :
               /\ RowEvents("sample_call", r, i) = {}
               /\ Cardinality(RowEvents("malformed", r, i)) = 1
               /\ idx[r] = i => pc[r] \in {"rows", "finished"}
        /\ \A i \in 1..idx[r] :
               (/\ rows[i][ColNameMapping.avg_spot_length] = Lit("abc")
                /\ RowOver(r, i)
                /\ RowEvents("geo_exc", r, i) = {})
               => i \in InvalidRows(r)
        /\ pc[r] = "finished" => \A i \in 1..Len(rows) : RowEvents("row", r, i) # {}

\* C3 witness: row 1 was skipped for its avg_spot_length, row 2 was handed to
\* find_or_insert_sample, and the run finished
C3_Witness ==
    /\ pc[1] = "finished"
    /\ \E k \in RowEvents("malformed", 1, 1) : trace[1][k].stage = "avg_spot_length"
    /\ RowEvents("sample_ret", 1, 2) # {}
    /\ debug_info[1].skipped_malformed = 1

\* C4: a row counted in skipped_malformed (here: for one of its own values)
\* has triggered neither a find_or_insert_sample call nor a
\* find_or_insert_geo_location call.
C4_SkippedRowWroteNothing ==
    \A r \in Runs : \A i \in InvalidRows(r) :
        /\ RowEvents("sample_call", r, i) = {}
        /\ RowEvents("geo_call", r, i) = {}

\* the fields of a Sample that may not be null
NonNullableFields ==
    {"accession", "assay_type", "bases", "bio_project", "bio_sample_model", "bytes",
     "center_name", "consent_level", "datastore_filetype", "datastore_provider",
     "datastore_region", "experiment", "instrument", "library_name", "library_layout",
     "library_selection", "library_source", "organism", "platform", "version",
     "sample_name", "sra_study", "is_retracted", "release_date", "creation_date"}

\* the columns those fields are read from
NonNullableColumns ==
    {"Run", "Assay Type", "Bases", "BioProject", "BioSampleModel", "Bytes",
     "Center Name", "Consent", "DATASTORE filetype", "DATASTORE provider",
     "DATASTORE region", "Experiment", "Instrument", "Library Name", "LibraryLayout",
     "LibrarySelection", "LibrarySource", "Organism", "Platform", "version",
     "Sample Name", "SRA Study", "is_retracted", "ReleaseDate", "create_date"}

\* a row with an empty or unconvertible value in a non-nullable column
HasBadRequiredValue(row) ==
    \/ \E c \in NonNullableColumns : row[c] = <<>>
    \/ \E c \in {"Bases", "Bytes"} : row[c] \in {Lit("abc"), Lit("12.5")}
    \/ row["is_retracted"] = Lit("maybe")
    \/ \E c \in {"ReleaseDate", "create_date"} : row[c] = Lit("yesterday")

\* C5: every record handed to find_or_insert_sample has a value in every
\* non-nullable field, and a row with an empty or unconvertible value in such
\* a field never reaches find_or_insert_sample.
C5_NoNullInRequiredFields ==
    \A r \in Runs : \A k \in Events("sample_call", r) :
        /\ \A f \in NonNullableFields : trace[r][k].sample[f].t # "none"
        /\ ~HasBadRequiredValue(rows[trace[r][k].row])

\* C5 witness: a row with an empty Bases was skipped at that field
C5_Witness ==
    /\ pc[1] = "finished"
    /\ Len(rows) = 1
    /\ rows[1]["Bases"] = <<>>
    /\ \E k \in RowEvents("malformed", 1, 1) : trace[1][k].stage = "bases"

\* C6: a row whose Collection_Date is exactly 'missing' gets null start and
\* end dates without the date-range parser being invoked, and is never
\* skipped because of its collection date.
C6_MissingDateSentinel ==
    \A r \in Runs : \A i \in 1..idx[r] :
        rows[i][ColNameMapping.collection_date] = Lit("missing")
        => /\ \A k \in RowEvents("sample_call", r, i) :
                  /\ ~trace[r][k].parsed
                  /\ trace[r][k].sample.collection_start_date = None
                  /\ trace[r][k].sample.collection_end_date = None
           /\ \A k \in RowEvents("malformed", r, i) \cup RowEvents("abort", r, i) :
                  /\ ~trace[r][k].parsed
                  /\ trace[r][k].stage # "collection_date"
           /\ (RowOver(r, i) /\ rows[i] = [c \in header |-> GoodRow[c]]
                  /\ RowEvents("geo_exc", r, i) = {})
               => RowEvents("sample_call", r, i) # {}

\* C6 witness: a row with the sentinel was handed to find_or_insert_sample
\* after one with a real date range
C6_Witness ==
    /\ Len(rows) = 2
    /\ rows[1]["Collection_Date"] = <<"2020-01-01", "/", "2020-02-01">>
    /\ rows[2]["Collection_Date"] = Lit("missing")
    /\ \E k \in RowEvents("sample_call", 1, 1) : trace[1][k].parsed
    /\ RowEvents("sample_call", 1, 2) # {}

\* the geo-location calls of run r that returned, as <<call, return>> positions:
\* a return answers the latest call of its run before it
GeoAnswered(r) ==
    {<<j, k>> \in Events("geo_call", r) \X Events("geo_ret", r) :
        /\ j < k
        /\ \A m \in Events("geo_call", r) : m < k => m <= j}

\* C7: every entry of the geo-location cache maps a triple to the identifier
\* find_or_insert_geo_location returned for it in this run, and nothing else
\* is in the cache; a failing row changes neither the cache (but for the entry
\* of a geo-location call that returned before the failure) nor
\* count_preexisting.
C7_CacheHoldsReturnedIds ==
    \A r \in Runs :
        /\ DOMAIN cache_geo_loc_ids[r]
              = {TripleOfLoc(trace[r][p[1]].geo_loc) : p \in GeoAnswered(r)}
        /\ \A p \in GeoAnswered(r) :
               cache_geo_loc_ids[r][TripleOfLoc(trace[r][p[1]].geo_loc)] = trace[r][p[2]].id
        /\ debug_info[r].count_preexisting = Cardinality(PreexistingReturns(r))
        /\ \A i \in InvalidRows(r) : RowEvents("sample_ret", r, i) = {}

\* C7 witness: row 1 was skipped for its avg_spot_length after its
\* geo-location call returned, and row 2 then found the identifier cached
C7_Witness ==
    /\ \E k \in RowEvents("malformed", 1, 1) : trace[1][k].stage = "avg_spot_length"
    /\ RowEvents("geo_ret", 1, 1) # {}
    /\ RowEvents("geo_call", 1, 2) = {}
    /\ \E k \in RowEvents("sample_call", 1, 2) :
           /\ trace[1][k].sample.geo_location_id # None
           /\ \E j \in RowEvents("geo_ret", 1, 1) :
                  trace[1][k].sample.geo_location_id = trace[1][j].id

\* C8: an error raised by a storage call is never counted in
\* skipped_malformed nor swallowed so that the run goes on with the next row:
\* skipped_malformed counts only rows whose own values failed validation.
C8_StorageErrorsNotSwallowed ==
    \A r \in Runs :
        /\ \A k \in Events("malformed", r) : trace[r][k].stage \notin StorageStages
        /\ \A k \in Events("geo_exc", r) \cup Events("sample_exc", r) :
               pc[r] = "aborted" /\ idx[r] = trace[r][k].row
        /\ debug_info[r].skipped_malformed = Cardinality(InvalidRows(r))

\* C9: a successfully assembled row is handed to find_or_insert_sample once,
\* with upsert true, and count_preexisting is the number of those calls that
\* reported a preexisting record.
C9_PreexistingCounted ==
    \A r \in Runs :
        /\ \A i \in 1..Len(rows) : Cardinality(RowEvents("sample_call", r, i)) <= 1
        /\ \A k \in Events("sample_call", r) : trace[r][k].upsert = TRUE
        /\ \A i \in 1..idx[r] :
               (/\ rows[i] = [c \in header |-> GoodRow[c]]
                /\ RowOver(r, i)
                /\ RowEvents("geo_exc", r, i) = {})
               => Cardinality(RowEvents("sample_call", r, i)) = 1
        /\ debug_info[r].count_preexisting = Cardinality(PreexistingReturns(r))
        /\ \A k \in Events("print", r) :
               trace[r][k].debug_info.count_preexisting = Cardinality(PreexistingReturns(r))

\* C9 witness: a finished run of two rows, one reported preexisting, one not
C9_Witness ==
    /\ pc[1] = "finished"
    /\ Cardinality(Events("sample_ret", 1)) = 2
    /\ debug_info[1].count_preexisting = 1

\* the timestamp fields of a Sample parsed by the row pipeline
TimestampFields == {"retraction_detected_date", "release_date", "creation_date"}

\* C10: a timestamp without a timezone designator is never rejected and is
\* taken as UTC: no record handed to find_or_insert_sample holds a timestamp
\* without a zone, and no row is skipped for the zone marker of a timestamp.
C10_TimestampsAreUTC ==
    \A r \in Runs :
        /\ \A k \in Events("sample_call", r) : \A f \in TimestampFields :
               trace[r][k].sample[f].t = "datetime" => trace[r][k].sample[f].tz = "UTC"
        /\ \A k \in Events("malformed", r) :
               trace[r][k].stage \in TimestampFields
               => LET v == rows[trace[r][k].row][ColNameMapping[trace[r][k].stage]]
                  IN  /\ ~(Len(v) = 1 /\ v[1] \in DateTimeLexemes)
                      /\ ~(Len(v) = 2 /\ v[1] \in DateTimeLexemes /\ v[2] = "Z")

----------------------------------------------------------------------------
\* the storage calls of run r that have neither returned nor raised
Outstanding(r) ==
    Cardinality(Events("geo_call", r) \cup Events("sample_call", r))
    - Cardinality(Events("geo_ret", r) \cup Events("geo_exc", r)
                  \cup Events("sample_ret", r) \cup Events("sample_exc", r))

\* the events that belong to a row: its reading, its calls and their ends,
\* and its outcome
RowKinds ==
    {"row", "geo_call", "geo_ret", "geo_exc", "sample_call", "sample_ret",
     "sample_exc", "malformed", "abort"}

\* C11: within one run the rows are processed in file order and one at a time:
\* at most one storage call is outstanding, and everything that belongs to
\* row i happens before anything that belongs to row i+1.
C11_RowsInFileOrder ==
    \A r \in Runs :
        LET h == trace[r]
            out == Outstanding(r)
            IsRowEvent(k) == h[k].ev \in RowKinds
        IN  /\ out \in {0, 1}
            /\ out = 1 <=> pc[r] \in {"await_geo", "await_sample"}
            \* only the header's outcome precedes the rows, only the summary follows
            /\ \A k \in DOMAIN h : ~IsRowEvent(k) => k \in {1, Len(h)}
            \* row numbers never decrease along the history
            /\ \A k \in 2..Len(h) :
                   (IsRowEvent(k - 1) /\ IsRowEvent(k)) => h[k - 1].row <= h[k].row
            \* a row's events begin with its being read, and it is read once
            /\ \A k \in DOMAIN h :
                   h[k].ev = "row" <=>
                       /\ IsRowEvent(k)
                       /\ k = 1 \/ ~IsRowEvent(k - 1) \/ h[k - 1].row < h[k].row
            /\ \A i \in 1..idx[r] : Cardinality(RowEvents("row", r, i)) = 1
            /\ \A k \in DOMAIN h : IsRowEvent(k) => h[k].row \in 1..idx[r]

\* C11 witness: row 2 is at its sample call after both calls of row 1 ended
C11_Witness ==
    /\ pc[1] = "await_sample"
    /\ idx[1] = 2
    /\ RowEvents("geo_ret", 1, 1) # {}
    /\ RowEvents("sample_ret", 1, 1) # {}
    /\ RowEvents("geo_ret", 1, 2) # {}

----------------------------------------------------------------------------
\* Two runs of parse_and_insert on the same parser object (the same file),
\* interleaved at their suspension points.

\* the files of the two-run specification: rows that share a triple
ConcFiles ==
    {<<GoodRow>>,
     <<GoodRow, [GoodRow EXCEPT !["geo_loc_name"] =
                    <<"USA", ":", " ", "California", ":", " ", "Davis">>]>>}

InitConc ==
    /\ header = AllColumns
    /\ rows \in {[i \in DOMAIN q |-> ReadRow(header, q[i])] : q \in ConcFiles}
    /\ pc = [r \in Runs |-> "start"]
    /\ idx = [r \in Runs |-> 0]
    /\ cache_geo_loc_ids = [r \in Runs |-> <<>>]
    /\ debug_info = [r \in Runs |-> [skipped_malformed |-> 0, count_preexisting |-> 0]]
    /\ geo_loc = [r \in Runs |-> None]
    /\ geo_location_id = [r \in Runs |-> None]
    /\ sample = [r \in Runs |-> None]
    /\ trace = [r \in Runs |-> <<>>]

SpecConc == InitConc /\ [][Next]_vars

\* the triples run r itself had answered by find_or_insert_geo_location before
\* position k of its history
OwnAnswered(r, k) ==
    {TripleOfLoc(trace[r][p[1]].geo_loc) : p \in {q \in GeoAnswered(r) : q[2] < k}}

\* C12: two interleaved runs each have their own cache and their own counters:
\* the cache of a run holds the answers to its own calls only and its counters
\* count its own rows only, so a run makes its own find_or_insert_geo_location
\* call for a triple it has not itself seen, whatever the other run has seen;
\* and each run issues at most one such call per triple.
C12_RunsArePrivate ==
    \A r \in Runs :
        /\ DOMAIN cache_geo_loc_ids[r]
              = {TripleOfLoc(trace[r][p[1]].geo_loc) : p \in GeoAnswered(r)}
        /\ debug_info[r].skipped_malformed = Cardinality(Events("malformed", r))
        /\ debug_info[r].count_preexisting = Cardinality(PreexistingReturns(r))
        /\ \A k \in Events("row", r) :
               LET i == trace[r][k].row
                   s == rows[i][ColNameMapping.geo_loc_name]
               IN  (s # <<>> /\ parse_geo_loc(s).ok
                        /\ TripleOf(s) \notin OwnAnswered(r, k))
                   => RowEvents("geo_call", r, i) # {}
        /\ \A j, k \in Events("geo_call", r) :
               TripleOfLoc(trace[r][j].geo_loc) = TripleOfLoc(trace[r][k].geo_loc) => j = k

----------------------------------------------------------------------------
\* the rows of the file whose geo-location value is absent
GeoAbsentRows == {i \in DOMAIN rows : rows[i][ColNameMapping.geo_loc_name] = <<>>}

\* a row without geo-location is not rejected for it, makes no
\* find_or_insert_geo_location call, and its record has a null geo_location_id
GeoAbsentRowState ==
    \A r \in Runs : \A k \in Events("row", r) :
        LET i == trace[r][k].row
        IN  i \in GeoAbsentRows =>
              /\ RowEvents("geo_call", r, i) = {}
              /\ \A m \in RowEvents("malformed", r, i) : trace[r][m].stage # "geo_loc_name"
              /\ \A m \in RowEvents("sample_call", r, i) :
                     trace[r][m].sample.geo_location_id = None
              /\ idx[r] = i => geo_location_id[r] = None

\* no step of a run on a row without geo-location changes the run's cache
GeoAbsentRowFrame ==
    \A r \in Runs :
        idx'[r] \in GeoAbsentRows => cache_geo_loc_ids'[r] = cache_geo_loc_ids[r]

\* C13: for a row whose geo-location value is absent, the record's
\* geo_location_id is null, find_or_insert_geo_location is not called for that
\* row, and the geo-location cache is left unchanged.
C13_GeoAbsentRow == []GeoAbsentRowState /\ [][GeoAbsentRowFrame]_vars

\* row 1 filled the cache; row 2 has no geo-location and was handed to
\* find_or_insert_sample
C13_Witness ==
    /\ Len(rows) = 2
    /\ 2 \in GeoAbsentRows
    /\ 1 \notin GeoAbsentRows
    /\ DOMAIN cache_geo_loc_ids[1] # {}
    /\ RowEvents("sample_call", 1, 2) # {}
    /\ RowEvents("sample_ret", 1, 2) # {}

----------------------------------------------------------------------------
\* the ColNameMapping members row assembly reads a column through
ConsumedMembers ==
    {"geo_loc_name", "collection_date", "retraction_detected_date"}
        \cup {SampleFieldSpecs[i][2] : i \in DOMAIN SampleFieldSpecs}

\* the required columns are the consumed members' header strings, one each
RequiredIsConsumed ==
    /\ get_required_column_set = {ColNameMapping[m] : m \in ConsumedMembers}
    /\ \A m, n \in ConsumedMembers : ColNameMapping[m] = ColNameMapping[n] => m = n

\* C14: the required-column set is exactly the set of header strings row
\* assembly reads through ColNameMapping, one per consumed field and no two
\* fields sharing one; so once the header passed validation, row assembly
\* never looks up a column the header lacks.
C14_RequiredIsConsumed ==
    /\ RequiredIsConsumed
    /\ \A r \in Runs :
           /\ Events("header_ok", r) # {} =>
                 \A i \in DOMAIN rows : \A m \in ConsumedMembers :
                     ColNameMapping[m] \in DOMAIN rows[i]
           /\ \A k \in Events("abort", r) : trace[r][k].stage \in StorageStages

\* a header with every required column passed validation and a row of it was
\* assembled, every column looked up, and handed to find_or_insert_sample
C14_Witness ==
    /\ get_required_column_set \subseteq header
    /\ Events("header_ok", 1) # {}
    /\ RowEvents("sample_call", 1, 1) # {}

----------------------------------------------------------------------------
\* the rows of run r that have run to their end
RowsOver(r) == {i \in 1..idx[r] : RowOver(r, i)}

\* C15: each row changes the counters at most once and has exactly one
\* outcome: counted in skipped_malformed or handed to find_or_insert_sample,
\* never both; so once k rows have run to their end, skipped_malformed plus
\* the number of completed find_or_insert_sample calls is k, and
\* skipped_malformed + count_preexisting <= k.
C15_OneOutcomePerRow ==
    \A r \in Runs :
        pc[r] # "aborted" =>
          /\ \A i \in 1..idx[r] :
                 /\ Cardinality(RowEvents("malformed", r, i))
                      + Cardinality(PreexistingReturns(r) \cap RowEvents("sample_ret", r, i)) <= 1
                 /\ RowEvents("malformed", r, i) = {} \/ RowEvents("sample_call", r, i) = {}
                 /\ RowOver(r, i) =>
                        RowEvents("malformed", r, i) # {} \/ RowEvents("sample_call", r, i) # {}
          /\ debug_info[r].skipped_malformed + Cardinality(Events("sample_ret", r))
                = Cardinality(RowsOver(r))
          /\ debug_info[r].skipped_malformed + debug_info[r].count_preexisting
                <= Cardinality(RowsOver(r))

----------------------------------------------------------------------------
\* One run to its end, the event loop resuming the coroutine whenever it can
\* go on and every storage call completing.

\* rows of the files of the fair specification: a well-formed one with a
\* geo-location of one segment, one without geo-location, one of another
\* country that fails validation after its geo-location call
LiveRowSet ==
    {[GoodRow EXCEPT !["geo_loc_name"] = <<"Canada">>],
     [GoodRow EXCEPT !["geo_loc_name"] = <<>>],
     [GoodRow EXCEPT !["geo_loc_name"] = <<"USA">>, !["AvgSpotLen"] = Lit("abc")]}

InitLive ==
    /\ header \in {AllColumns, AllColumns \ {"Bases"}}
    /\ rows \in {[i \in DOMAIN q |-> ReadRow(header, q[i])] : q \in SeqsUpTo(LiveRowSet, MaxRows)}
    /\ pc = [r \in Runs |-> IF r = 1 THEN "start" ELSE "unstarted"]
    /\ idx = [r \in Runs |-> 0]
    /\ cache_geo_loc_ids = [r \in Runs |-> <<>>]
    /\ debug_info = [r \in Runs |-> [skipped_malformed |-> 0, count_preexisting |-> 0]]
    /\ geo_loc = [r \in Runs |-> None]
    /\ geo_location_id = [r \in Runs |-> None]
    /\ sample = [r \in Runs |-> None]
    /\ trace = [r \in Runs |-> <<>>]

SpecLive == InitLive /\ [][Next]_vars /\ WF_vars(Next)

\* the shape of a run: header validation is its first step and happens once;
\* the summary is emitted once, as the last step, when every row of the file
\* has been read once and has its outcome
RunShape ==
    \A r \in Runs :
        /\ Events("header_ok", r) \subseteq {1}
        /\ Events("row", r) # {} => Events("header_ok", r) = {1}
        /\ Events("print", r) \subseteq {Len(trace[r])}
        /\ pc[r] = "finished" <=> Events("print", r) # {}
        /\ pc[r] = "finished" =>
              /\ idx[r] = Len(rows)
              /\ \A i \in DOMAIN rows :
                     /\ Cardinality(RowEvents("row", r, i)) = 1
                     /\ Cardinality(RowEvents("malformed", r, i)
                                      \cup RowEvents("sample_ret", r, i)) = 1
        /\ \A k \in Events("abort", r) : trace[r][k].stage \in StorageStages

\* C16: for a file whose header passes validation, as long as the storage
\* calls return, the run goes Start -> HeaderValidated -> RowProcessing* ->
\* Finished: it reaches Finished with every row processed exactly once, emits
\* the summary exactly once and after the last row's outcome, and never goes
\* back to header validation.
C16_RunFinishes ==
    /\ []RunShape
    /\ [][\A r \in Runs : pc[r] \notin {"start", "unstarted"} => pc'[r] # "start"]_vars
    /\ HeaderOk(header) => <>(pc[1] = "finished" \/ Events("abort", 1) # {})

\* a run of a two-row file finished: a geo-location call and both rows' sample
\* calls returned, and the summary was emitted
C16_Witness ==
    /\ pc[1] = "finished"
    /\ Len(rows) = 2
    /\ Events("geo_ret", 1) # {}
    /\ RowEvents("sample_ret", 1, 1) # {}
    /\ RowEvents("sample_ret", 1, 2) # {}
    /\ Events("print", 1) = {Len(trace[1])}

====
